---- MODULE Spec2Model ----
(***************************************************************************)
(* Model of omni-chat's MetaDiscussion (src/src/meta-discussion.ts): the   *)
(* registry of dated sub-discussions, the message merge of getMessages,    *)
(* the registry operations addSubdiscussion / removeSubdiscussion /        *)
(* addParticipant / isHeterogeneous, the relay started by listen, and of   *)
(* User.getOrCreateDiscussion (src/src/user.ts).                           *)
(*                                                                         *)
(* Time is counted in minutes: a Date is a natural number of minutes, so   *)
(* the source's 5 * 1000 * 60 milliseconds is FiveMinutes == 5.  A         *)
(* nullable Date is a sequence: Null (<<>>) for null, <<t>> for a date.    *)
(***************************************************************************)
EXTENDS Integers, Sequences, FiniteSets, Bags, TLC

(* ------------------------------ bounds -------------------------------- *)

\* Largest number of messages held by the underlying streams together.
MaxMsgs == 3

\* Creation times of messages range over 0..MaxDate (minutes).
MaxDate == 6

\* Largest number of messages of the streams when the membership windows vary.
MaxWindowMsgs == 2

\* The clock (new Date()) and the added / removed dates range over 0..MaxNow.
MaxNow == 1

\* Largest number of entries of the registry.
MaxEntries == 2

\* Largest number of registry calls in flight at the same time.
MaxCalls == 2

\* Largest number of messages the sub-discussions receive.
MaxIncoming == 1

\* Largest number of sub-discussions of a Meta-Discussion that relays.
MaxSubs == 3

\* Largest number of accounts of a User.
MaxAccounts == 2

\* Largest value of options.maxParticipants.
MaxParts == 2

(* ------------------------- program constants -------------------------- *)

\* 5 * 1000 * 60 milliseconds, in minutes.
FiveMinutes == 5

\* The message bodies, in the order in which a stream first uses them.
BodySeq == <<"hi", "yo", "ok">>

Null == <<>>

Dates == 0..MaxDate

\* The simple discussions that exist: a global id, the driver name and the
\* global id of the local user account.  d1 and d3 share driver and account.
AllDiscussions ==
    << [id |-> "x:d1", driver |-> "x", account |-> "x:A1"],
       [id |-> "y:d2", driver |-> "y", account |-> "y:A2"],
       [id |-> "x:d3", driver |-> "x", account |-> "x:A1"] >>

Discussions == {AllDiscussions[k] : k \in 1..Len(AllDiscussions)}

\* The sub-discussions of the Meta-Discussion whose messages are read.
GmDiscussions == <<AllDiscussions[1], AllDiscussions[2]>>

NumEntries == Len(GmDiscussions)

\* The simple discussions a relaying Meta-Discussion is constructed with:
\* three discussions of three local accounts.
RelayDiscussions ==
    {AllDiscussions[1], AllDiscussions[2],
     [id |-> "x:d4", driver |-> "x", account |-> "x:A3"]}

\* The user accounts that exist: a global id and the driver name.
AllAccounts ==
    << [id |-> "x:A1", driver |-> "x"],
       [id |-> "y:A2", driver |-> "y"],
       [id |-> "x:A3", driver |-> "x"] >>

AccountIds == {AllAccounts[k].id : k \in 1..Len(AllAccounts)}

\* The bodies of the messages the sub-discussions receive.
IncomingBodies == {"hi"}

\* The contact accounts that exist.
Contacts == {"c1", "c2", "c3", "c4"}

\* The contacts getOrCreateDiscussion is called with.
TargetContacts == {"c1", "c2"}

\* The accounts of the User that owns the Meta-Discussion.
OwnerAccounts == <<AllAccounts[1], AllAccounts[2]>>

\* What the owner's accounts know: c1 is known to x:A1 only, c2 to y:A2
\* only, c3 to both and c4 to none.
OwnerKnows ==
    [a \in AccountIds |->
       CASE a = "x:A1" -> {"c1", "c3"}
         [] a = "y:A2" -> {"c2", "c3"}
         [] OTHER -> {}]

VARIABLES
    subDiscussions, \* this.subDiscussions: sequence of Subdiscussion entries
    now,            \* the value new Date() returns
    calls,          \* the bag of registry calls that are suspended
    last,           \* what the step just taken returned to a caller of a
                    \* registry operation (NoCall when it returned nothing)
    stream,         \* per registry entry: the messages its sub-discussion holds
    eager,          \* whether a sub-discussion's getMessages reads its options
                    \* during the call (TRUE) or after suspending (FALSE)
    opts,           \* the options object of getMessages, shared by the retrievals
    retr,           \* per registry entry: the state of its retrieval
    messages,       \* the local array `messages` of getMessages
    datedMsgs,      \* the sorted array the sweep works on
    metaMessages,   \* the local array `metaMessages`, the result
    gmPc,           \* position of the getMessages call
    listening,      \* this.listening
    handlers,       \* the bag of discussion ids: one copy per "message"
                    \* handler of this Meta-Discussion the discussion carries
    inbox,          \* the messages the sub-discussions received, in order
    relays,         \* the bag of handler runs (dispatchFrom), kept when over
    sent,           \* the bag of SimpleDiscussion.sendMessage calls made
    emitted,        \* the "message" events the Meta-Discussion emitted
    accounts,       \* this.accounts of the owning User
    knows,          \* per account id: the contacts the account knows
    created,        \* the number of discussions api.createDiscussion made
    goc             \* the getOrCreateDiscussion call of the User

regVars == <<subDiscussions, now, calls, last>>
gmVars == <<stream, eager, opts, retr, messages, datedMsgs, metaMessages, gmPc>>
relayVars == <<listening, handlers, inbox, relays, sent, emitted>>
userVars == <<accounts, knows, created, goc>>
vars == <<subDiscussions, now, calls, last,
          stream, eager, opts, retr, messages, datedMsgs, metaMessages, gmPc,
          listening, handlers, inbox, relays, sent, emitted,
          accounts, knows, created, goc>>

(* ----------------------------- helpers -------------------------------- *)

Range(s) == {s[k] : k \in 1..Len(s)}

RemoveAt(s, k) == SubSeq(s, 1, k - 1) \o SubSeq(s, k + 1, Len(s))

\* A Subdiscussion entry: {subdiscussion, added, removed}; `merged` records
\* the discussions merged into the entry's discussion object.
Entry(d, added, removed) ==
    [subdiscussion |-> d, added |-> added, removed |-> removed, merged |-> {}]

(* ------------------ the external message contract --------------------- *)

\* SimpleMessage.hasTheSameBodyAs: body equality.
hasTheSameBodyAs(m1, m2) == m1.body = m2.body

\* new MetaMessage([msg]): the ordered constituents.
NewMetaMessage(msgs) == msgs

\* MetaMessage.merge: appends the other Meta-Message's constituents.
MetaMerge(meta, other) == meta \o other

\* SimpleDiscussion.getMessages(opts): the messages of the stream created at
\* or after opts.afterDate (all of them when afterDate is null).  The streams
\* are shorter than opts.maxMessages, which therefore never cuts the result.
SimpleGetMessages(msgs, afterDate) ==
    SelectSeq(msgs, LAMBDA m : afterDate = Null \/ m.date >= afterDate[1])

(* --------------------------- getMessages ------------------------------ *)

\* lines 152-157: the _.filter on the entry's removed date.
\* Variant: a message created at the removed date itself is kept.
KeepUpToRemoved(m, removed) ==
    IF removed /= Null THEN m.date <= removed[1] ELSE TRUE

KeepBeforeRemoved(m, removed) ==
    IF removed /= Null THEN m.date < removed[1] ELSE TRUE

\* _.sortBy(messages, ['date']): a stable ascending sort on the date.
InsertByDate(sorted, m) ==
    LET k == Cardinality({x \in 1..Len(sorted) : sorted[x].date <= m.date})
    IN  SubSeq(sorted, 1, k) \o <<m>> \o SubSeq(sorted, k + 1, Len(sorted))

\* Variant: the pool is left in the order the retrievals pushed it.
SortNone(s) == s

RECURSIVE SortByDate(_)
SortByDate(s) ==
    IF s = <<>> THEN <<>>
    ELSE InsertByDate(SortByDate(SubSeq(s, 1, Len(s) - 1)), s[Len(s)])

\* lines 178-188: the inner loop for the message at position i, from position
\* j on (positions count from 1).  The result is the array after the splices
\* and the Meta-Message built.
\* Variant: a folded message is not spliced out of the array.
RECURSIVE SweepInnerNoSplice(_, _, _, _)
SweepInnerNoSplice(arr, i, j, meta) ==
    IF j > Len(arr) THEN [arr |-> arr, meta |-> meta]
    ELSE IF arr[i].date > arr[j].date + FiveMinutes
         THEN [arr |-> arr, meta |-> meta]
    ELSE IF hasTheSameBodyAs(arr[i], arr[j])
         THEN SweepInnerNoSplice(arr, i, j + 1,
                                 MetaMerge(meta, NewMetaMessage(<<arr[j]>>)))
    ELSE SweepInnerNoSplice(arr, i, j + 1, meta)

\* Variant: no j-- after the splice, so the message that moved into
\* position j is jumped over.
RECURSIVE SweepInnerNoStepBack(_, _, _, _)
SweepInnerNoStepBack(arr, i, j, meta) ==
    IF j > Len(arr) THEN [arr |-> arr, meta |-> meta]
    ELSE IF arr[i].date > arr[j].date + FiveMinutes
         THEN [arr |-> arr, meta |-> meta]
    ELSE IF hasTheSameBodyAs(arr[i], arr[j])
         THEN SweepInnerNoStepBack(RemoveAt(arr, j), i, j + 1,
                                   MetaMerge(meta, NewMetaMessage(<<arr[j]>>)))
    ELSE SweepInnerNoStepBack(arr, i, j + 1, meta)

\* Variant: the body test is inverted.
RECURSIVE SweepInnerOtherBody(_, _, _, _)
SweepInnerOtherBody(arr, i, j, meta) ==
    IF j > Len(arr) THEN [arr |-> arr, meta |-> meta]
    ELSE IF arr[i].date > arr[j].date + FiveMinutes
         THEN [arr |-> arr, meta |-> meta]
    ELSE IF ~hasTheSameBodyAs(arr[i], arr[j])
         THEN SweepInnerOtherBody(RemoveAt(arr, j), i, j,
                                  MetaMerge(meta, NewMetaMessage(<<arr[j]>>)))
    ELSE SweepInnerOtherBody(arr, i, j + 1, meta)

RECURSIVE SweepInner(_, _, _, _)
SweepInner(arr, i, j, meta) ==
    IF j > Len(arr) THEN [arr |-> arr, meta |-> meta]
    ELSE IF arr[i].date > arr[j].date + FiveMinutes
         THEN [arr |-> arr, meta |-> meta]                       \* break
    ELSE IF hasTheSameBodyAs(arr[i], arr[j])
         THEN SweepInner(RemoveAt(arr, j), i, j,                 \* splice, j--
                         MetaMerge(meta, NewMetaMessage(<<arr[j]>>)))
    ELSE SweepInner(arr, i, j + 1, meta)

\* lines 175-190: the outer loop.
RECURSIVE SweepOuter(_, _, _)
SweepOuter(arr, i, metas) ==
    IF i > Len(arr) THEN [arr |-> arr, metas |-> metas]
    ELSE LET r == SweepInner(arr, i, i + 1, NewMetaMessage(<<arr[i]>>))
         IN  SweepOuter(r.arr, i + 1, Append(metas, r.meta))

\* lines 126-137: no options given, so opts is the default object.
DefaultOpts == [maxMessages |-> 20, afterDate |-> Null, filter |-> "null"]

\* lines 138-144: getMessages is called.  _.map runs over the dated entries
\* in registry order without suspending: each turn writes the entry's added
\* date into the one options object and starts the entry's retrieval.  A
\* retrieval that reads its options during the call sees its own entry's
\* added date; the others read the object later (Fetch).
GetMessagesCall ==
    /\ gmPc = "idle"
    /\ gmPc' = "retrieving"
    /\ opts' = IF subDiscussions = <<>> THEN opts
               ELSE [opts EXCEPT
                       !.afterDate = <<subDiscussions[Len(subDiscussions)].added>>]
    /\ retr' = [e \in 1..Len(subDiscussions) |->
                  [st |-> "started",
                   after |-> IF eager THEN <<subDiscussions[e].added>> ELSE Null,
                   got |-> <<>>]]
    /\ UNCHANGED <<stream, eager, messages, datedMsgs, metaMessages>>
    /\ UNCHANGED regVars
    /\ UNCHANGED <<relayVars, userVars>>

\* line 144: the retrieval of entry e resolves with the messages at or after
\* the lower bound it read.
Fetch(e) ==
    /\ gmPc = "retrieving"
    /\ retr[e].st = "started"
    /\ LET after == IF eager THEN retr[e].after ELSE opts.afterDate
       IN  retr' = [retr EXCEPT ![e] = [st |-> "fetched", after |-> after,
                                       got |-> SimpleGetMessages(stream[e], after)]]
    /\ UNCHANGED <<stream, eager, opts, messages, datedMsgs, metaMessages, gmPc>>
    /\ UNCHANGED regVars
    /\ UNCHANGED <<relayVars, userVars>>

\* lines 145-166: the fetched messages are dated, filtered on the entry's
\* removed date and pushed to `messages`.
Push(e) ==
    /\ gmPc = "retrieving"
    /\ retr[e].st = "fetched"
    /\ messages' = messages \o
          SelectSeq(retr[e].got,
                    LAMBDA m : KeepBeforeRemoved(m, subDiscussions[e].removed))
    /\ retr' = [retr EXCEPT ![e].st = "pushed"]
    /\ UNCHANGED <<stream, eager, opts, datedMsgs, metaMessages, gmPc>>
    /\ UNCHANGED regVars
    /\ UNCHANGED <<relayVars, userVars>>

\* lines 168-170: every retrieval is done; the pool is sorted.
SortPool ==
    /\ gmPc = "retrieving"
    /\ \A e \in DOMAIN retr : retr[e].st = "pushed"
    /\ datedMsgs' = SortByDate(messages)
    /\ gmPc' = "sorted"
    /\ UNCHANGED <<stream, eager, opts, retr, messages, metaMessages>>
    /\ UNCHANGED regVars
    /\ UNCHANGED <<relayVars, userVars>>

\* lines 174-193: the sweep; the promise resolves with metaMessages.
Sweep ==
    /\ gmPc = "sorted"
    /\ LET r == SweepOuter(datedMsgs, 1, <<>>)
       IN  /\ datedMsgs' = r.arr
           /\ metaMessages' = r.metas
    /\ gmPc' = "done"
    /\ UNCHANGED <<stream, eager, opts, retr, messages>>
    /\ UNCHANGED regVars
    /\ UNCHANGED <<relayVars, userVars>>

NextMessages ==
    \/ GetMessagesCall
    \/ \E e \in DOMAIN retr : Fetch(e)
    \/ \E e \in DOMAIN retr : Push(e)
    \/ SortPool
    \/ Sweep

(* ------------------------ registry operations ------------------------ *)

\* SimpleDiscussion.isTheSameAs: the two discussions carry the same global id.
isTheSameAs(d1, d2) == d1.id = d2.id

\* SimpleDiscussion.merge(other): the entry's discussion absorbs the other.
MergeInto(entry, d) == [entry EXCEPT !.merged = @ \cup {d.id}]

NoCall == [op |-> "none"]

\* new Date()
Tick ==
    /\ now < MaxNow
    /\ now' = now + 1
    /\ last' = NoCall
    /\ UNCHANGED <<subDiscussions, calls>>
    /\ UNCHANGED gmVars
    /\ UNCHANGED <<relayVars, userVars>>

\* UserAccount.hasContact(contact)
hasContact(accountId, contact) == contact \in knows[accountId]

\* Variant: no sub-discussion is ever found compatible with the contact.
AddParticipantDecideAlwaysCreate(snap, accts, contact) ==
    LET compatibleUserAccounts ==
            SelectSeq(accts, LAMBDA a : hasContact(a.id, contact))
    IN  IF Len(compatibleUserAccounts) = 0 THEN [kind |-> "unknown"]
        ELSE [kind |-> "create", account |-> compatibleUserAccounts[1]]

\* lines 237-259 and 515-520: what addParticipant(contact) does, from the
\* sub-discussions getSubDiscussions() returned when the call was made and
\* the accounts of the user: delegate to the first sub-discussion whose
\* local account has the contact, or fail, or create a discussion with the
\* first account that has the contact.
AddParticipantDecide(snap, accts, contact) ==
    LET discussions == SelectSeq(snap, LAMBDA d : hasContact(d.account, contact))
        compatibleUserAccounts ==
            SelectSeq(accts, LAMBDA a : hasContact(a.id, contact))
    IN  IF Len(discussions) > 0
        THEN [kind |-> "delegate", to |-> discussions[1]]
        ELSE IF Len(compatibleUserAccounts) = 0 THEN [kind |-> "unknown"]
        ELSE [kind |-> "create", account |-> compatibleUserAccounts[1]]

\* Whether the suspended call x may still append an entry to the registry:
\* an addSubdiscussion that did not find its discussion's id, an
\* addParticipant that creates a discussion.
MayAppend(x) ==
    CASE x.op = "addSubdiscussion" -> ~x.pre
      [] x.op = "addParticipant" ->
            \/ x.pc = "created"
            \/ AddParticipantDecide(x.snap, accounts, x.contact).kind = "create"
      [] OTHER -> FALSE

\* The number of suspended calls that may still append an entry.
PendingAppends ==
    BagCardinality([c \in {x \in BagToSet(calls) : MayAppend(x)} |-> calls[c]])

HasId(reg, d) == \E k \in DOMAIN reg : reg[k].subdiscussion.id = d.id

\* lines 424-461: addSubdiscussion(d) resolves the driver name, the local
\* account id and the global id of d, then takes getSubDiscussions() (a copy
\* of the registry's discussions) and resolves the same three of each.
\* `pre` notes whether an entry carried d's global id when the call was made.
\* The registry is kept within MaxEntries entries.
AddSubdiscussionCall(d) ==
    /\ BagCardinality(calls) < MaxCalls
    /\ \/ HasId(subDiscussions, d)
       \/ Len(subDiscussions) + PendingAppends < MaxEntries
    /\ calls' = calls (+) SetToBag({
          [op |-> "addSubdiscussion", arg |-> d,
           snap |-> [k \in DOMAIN subDiscussions |-> subDiscussions[k].subdiscussion],
           sames |-> <<>>,
           pre |-> HasId(subDiscussions, d)]})
    /\ last' = NoCall
    /\ UNCHANGED <<subDiscussions, now>>
    /\ UNCHANGED gmVars
    /\ UNCHANGED <<relayVars, userVars>>

\* Variant: only the active entries are searched for the incoming id.
AddDecideActiveOnly(reg, snap, d, t) ==
    IF \E k \in DOMAIN snap : snap[k].id = d.id /\ reg[k].removed = Null
    THEN [result |-> "Already existing", reg |-> reg]
    ELSE LET hits == {i \in DOMAIN snap :
                        /\ snap[i].driver = d.driver
                        /\ snap[i].account = d.account
                        /\ reg[i].removed = Null}
         IN  IF hits /= {}
             THEN LET i == CHOOSE x \in hits : \A y \in hits : x <= y
                  IN  [result |-> "ok",
                       reg |-> [reg EXCEPT ![i] = MergeInto(reg[i], d)]]
             ELSE [result |-> "ok", reg |-> Append(reg, Entry(d, t, Null))]

\* Variant: the loop of lines 470-476 finds no entry to merge into.
AddDecideNoMerge(reg, snap, d, t) ==
    IF \E k \in DOMAIN snap : snap[k].id = d.id
    THEN [result |-> "Already existing", reg |-> reg]
    ELSE [result |-> "ok", reg |-> Append(reg, Entry(d, t, Null))]

\* lines 462-480: the last callback of addSubdiscussion, on the registry as
\* it is now and the snapshot taken at the call.
AddDecide(reg, snap, d, t) ==
    IF \E k \in DOMAIN snap : snap[k].id = d.id
    THEN [result |-> "Already existing", reg |-> reg]
    ELSE LET hits == {i \in DOMAIN snap :
                        /\ snap[i].driver = d.driver
                        /\ snap[i].account = d.account
                        /\ reg[i].removed = Null}
         IN  IF hits /= {}
             THEN LET i == CHOOSE x \in hits : \A y \in hits : x <= y
                  IN  [result |-> "ok",
                       reg |-> [reg EXCEPT ![i] = MergeInto(reg[i], d)]]
             ELSE [result |-> "ok", reg |-> Append(reg, Entry(d, t, Null))]

\* The promise of call c settles with r.result; `before` is the registry the
\* settling step found.
Completed(c, r, before) ==
    [op |-> c.op, arg |-> c.arg, pre |-> c.pre, result |-> r.result,
     before |-> before]

AddSubdiscussionReturn(c) ==
    /\ c.op = "addSubdiscussion"
    /\ LET r == AddDecide(subDiscussions, c.snap, c.arg, now)
       IN  /\ subDiscussions' = r.reg
           /\ last' = Completed(c, r, subDiscussions)
    /\ calls' = calls (-) SetToBag({c})
    /\ UNCHANGED now
    /\ UNCHANGED gmVars
    /\ UNCHANGED <<relayVars, userVars>>

\* lines 485-494: removeSubdiscussion(d) rejects at once on an empty
\* registry; otherwise it compares d with every entry's discussion.  `pre`
\* notes whether d was the same as an active entry when the call was made.
RemoveSubdiscussionCall(d) ==
    /\ BagCardinality(calls) < MaxCalls
    /\ LET c == [op |-> "removeSubdiscussion", arg |-> d, snap |-> <<>>,
                 sames |-> [k \in DOMAIN subDiscussions |->
                              isTheSameAs(d, subDiscussions[k].subdiscussion)],
                 pre |-> \E k \in DOMAIN subDiscussions :
                            /\ isTheSameAs(d, subDiscussions[k].subdiscussion)
                            /\ subDiscussions[k].removed = Null]
       IN  IF Len(subDiscussions) = 0
           THEN /\ last' = Completed(c, [result |-> "Empty meta-discussion",
                                         reg |-> subDiscussions], subDiscussions)
                /\ calls' = calls
           ELSE /\ calls' = calls (+) SetToBag({c})
                /\ last' = NoCall
    /\ UNCHANGED <<subDiscussions, now>>
    /\ UNCHANGED gmVars
    /\ UNCHANGED <<relayVars, userVars>>

\* Variant: the loop visits every entry and marks the first one that is the
\* same discussion, active or not.
RECURSIVE RemoveLoopAnyEntry(_, _, _, _)
RemoveLoopAnyEntry(reg, sames, i, t) ==
    IF ~(i < Len(sames)) THEN [found |-> FALSE, reg |-> reg]
    ELSE IF sames[i + 1]
         THEN [found |-> TRUE, reg |-> [reg EXCEPT ![i + 1].removed = <<t>>]]
    ELSE RemoveLoopAnyEntry(reg, sames, i + 1, t)

\* lines 497-504: for(let i: number; i = 0; i++).  The loop test is the
\* assignment i = 0: it stores 0 in i and its value, 0, is false, so the test
\* fails the first time it is made.  i counts from 0, positions from 1.
RECURSIVE RemoveLoop(_, _, _, _)
RemoveLoop(reg, sames, i, t) ==
    LET assigned == i - i
        test == assigned /= 0
    IN  IF ~test THEN [found |-> FALSE, reg |-> reg]
        ELSE IF sames[assigned + 1] /\ reg[assigned + 1].removed = Null
             THEN [found |-> TRUE,
                   reg |-> [reg EXCEPT ![assigned + 1].removed = <<t>>]]
        ELSE RemoveLoop(reg, sames, assigned + 1, t)

\* lines 495-509: the last callback of removeSubdiscussion.
RemoveDecide(reg, sames, t) ==
    LET r == RemoveLoop(reg, sames, 0, t)
    IN  IF ~r.found THEN [result |-> "No such discussion", reg |-> r.reg]
        ELSE [result |-> "ok", reg |-> r.reg]

RemoveSubdiscussionReturn(c) ==
    /\ c.op = "removeSubdiscussion"
    /\ LET r == RemoveDecide(subDiscussions, c.sames, now)
       IN  /\ subDiscussions' = r.reg
           /\ last' = Completed(c, r, subDiscussions)
    /\ calls' = calls (-) SetToBag({c})
    /\ UNCHANGED now
    /\ UNCHANGED gmVars
    /\ UNCHANGED <<relayVars, userVars>>

\* user.ts lines 97-100: Bluebird.all over the addParticipant promises.  The
\* settling ev of an addParticipant is seen by the getOrCreateDiscussion
\* call g that waits for it: a rejection rejects the call, a resolution is
\* counted.
GocObserve(g, ev) ==
    IF g.pc = "adding" /\ ev.op = "addParticipant"
    THEN IF ev.result = "Unknown contact"
         THEN [g EXCEPT !.pc = "rejected", !.result = ev.result]
         ELSE [g EXCEPT !.settled = @ + 1]
    ELSE g

\* lines 237-238: addParticipant(contact) takes getSubDiscussions(), a copy
\* of the registry's discussions, and filters it on hasContact.  The
\* registry is kept within MaxEntries entries.
AddParticipantCall(contact) ==
    /\ BagCardinality(calls) < MaxCalls
    /\ LET c == [op |-> "addParticipant", pc |-> "called", contact |-> contact,
                 snap |-> [k \in DOMAIN subDiscussions |->
                             subDiscussions[k].subdiscussion]]
       IN  /\ \/ ~MayAppend(c)
              \/ Len(subDiscussions) + PendingAppends < MaxEntries
           /\ calls' = calls (+) SetToBag({c})
    /\ last' = NoCall
    /\ UNCHANGED <<subDiscussions, now>>
    /\ UNCHANGED gmVars
    /\ UNCHANGED <<relayVars, userVars>>

\* api.createDiscussion and new SimpleDiscussion(account, discuss): the k-th
\* created discussion, on the account's driver, with a global id of its own.
NewSimpleDiscussion(acc, k) ==
    [id |-> acc.driver \o ":n" \o ToString(k), driver |-> acc.driver,
     account |-> acc.id]

\* lines 238-274: the callbacks up to the test of this.listening.  The call
\* settles when it delegates or fails; otherwise the discussion is created
\* and, when the Meta-Discussion is listening, attachEventsTo subscribes the
\* handler to it (discussion.on, line 548) before the entry is pushed.
AddParticipantResolve(c) ==
    /\ c.op = "addParticipant"
    /\ c.pc = "called"
    /\ LET r == AddParticipantDecide(c.snap, accounts, c.contact)
           newSubdiscuss == NewSimpleDiscussion(r.account, created + 1)
       IN  IF r.kind = "create"
           THEN /\ created' = created + 1
                /\ handlers' = IF listening
                               THEN handlers (+) SetToBag({newSubdiscuss.id})
                               ELSE handlers
                /\ calls' = (calls (-) SetToBag({c})) (+) SetToBag({
                      [op |-> "addParticipant", pc |-> "created",
                       contact |-> c.contact, new |-> newSubdiscuss]})
                /\ last' = NoCall
           ELSE /\ calls' = calls (-) SetToBag({c})
                /\ last' = [op |-> "addParticipant", contact |-> c.contact,
                            result |-> IF r.kind = "delegate" THEN "delegated"
                                       ELSE "Unknown contact",
                            to |-> IF r.kind = "delegate" THEN r.to.id
                                   ELSE "none",
                            before |-> subDiscussions]
                /\ UNCHANGED <<created, handlers>>
    /\ goc' = GocObserve(goc, last')
    /\ UNCHANGED <<subDiscussions, now, listening, accounts, knows>>
    /\ UNCHANGED <<inbox, relays, sent, emitted>>
    /\ UNCHANGED gmVars

\* lines 275-282: the new entry is pushed and the call resolves.
AddParticipantPush(c) ==
    /\ c.op = "addParticipant"
    /\ c.pc = "created"
    /\ subDiscussions' = Append(subDiscussions, Entry(c.new, now, Null))
    /\ calls' = calls (-) SetToBag({c})
    /\ last' = [op |-> "addParticipant", contact |-> c.contact,
                result |-> "ok", before |-> subDiscussions]
    /\ goc' = GocObserve(goc, last')
    /\ UNCHANGED <<now, accounts, knows, created>>
    /\ UNCHANGED gmVars
    /\ UNCHANGED relayVars

\* lines 371-385: the two loops of isHeterogeneous.
IsHeterogeneous(protocols, userAccountIDs) ==
    \/ \E k \in DOMAIN protocols : protocols[k] /= protocols[1]
    \/ \E k \in DOMAIN userAccountIDs : userAccountIDs[k] /= userAccountIDs[1]

\* lines 350-361: isHeterogeneous() resolves false at once on an empty
\* registry; otherwise it takes getSubDiscussions(), every entry's
\* discussion, and resolves their driver names.
IsHeterogeneousCall ==
    /\ BagCardinality(calls) < MaxCalls
    /\ IF Len(subDiscussions) = 0
       THEN /\ last' = [op |-> "isHeterogeneous", result |-> FALSE]
            /\ calls' = calls
       ELSE /\ calls' = calls (+) SetToBag({
                  [op |-> "isHeterogeneous",
                   protocols |-> [k \in DOMAIN subDiscussions |->
                                    subDiscussions[k].subdiscussion.driver]]})
            /\ last' = NoCall
    /\ UNCHANGED <<subDiscussions, now>>
    /\ UNCHANGED gmVars
    /\ UNCHANGED <<relayVars, userVars>>

\* lines 362-386: getSubDiscussions() is taken again, the local account ids
\* are resolved and the call resolves with the outcome of the loops.
IsHeterogeneousReturn(c) ==
    /\ c.op = "isHeterogeneous"
    /\ LET userAccountIDs == [k \in DOMAIN subDiscussions |->
                                subDiscussions[k].subdiscussion.account]
       IN  last' = [op |-> "isHeterogeneous",
                    result |-> IsHeterogeneous(c.protocols, userAccountIDs)]
    /\ calls' = calls (-) SetToBag({c})
    /\ UNCHANGED <<subDiscussions, now>>
    /\ UNCHANGED gmVars
    /\ UNCHANGED <<relayVars, userVars>>

NextRegistry ==
    \/ Tick
    \/ \E d \in Discussions : AddSubdiscussionCall(d)
    \/ \E c \in BagToSet(calls) : AddSubdiscussionReturn(c)
    \/ \E d \in Discussions : RemoveSubdiscussionCall(d)
    \/ \E c \in BagToSet(calls) : RemoveSubdiscussionReturn(c)

\* isHeterogeneous() together with the calls that append entries.
NextHeterogeneous ==
    \/ \E d \in Discussions : AddSubdiscussionCall(d)
    \/ \E c \in BagToSet(calls) : AddSubdiscussionReturn(c)
    \/ IsHeterogeneousCall
    \/ \E c \in BagToSet(calls) : IsHeterogeneousReturn(c)

(* ------------------------------ the relay ---------------------------- *)

\* The bag with one copy of s[k] per position k of the sequence s.
BagOfSeq(s) ==
    [x \in Range(s) |-> Cardinality({k \in DOMAIN s : s[k] = x})]

\* getSubDiscussions(), lines 393-401: the discussion of every entry.
GetSubDiscussions == [k \in DOMAIN subDiscussions |-> subDiscussions[k].subdiscussion]

\* Variant: listen() does not look at this.listening.
ListenCallAlways ==
    /\ BagCardinality(calls) < MaxCalls
    /\ listening' = TRUE
    /\ calls' = calls (+) SetToBag({
          [op |-> "listen", pc |-> "called", snap |-> GetSubDiscussions]})
    /\ last' = NoCall
    /\ UNCHANGED <<subDiscussions, now, handlers, inbox, relays, sent, emitted>>
    /\ UNCHANGED gmVars
    /\ UNCHANGED userVars

\* lines 60-66: listen() resolves at once when this.listening is set;
\* otherwise it sets the flag and takes getSubDiscussions().
ListenCall ==
    /\ BagCardinality(calls) < MaxCalls
    /\ IF listening
       THEN /\ last' = [op |-> "listen", result |-> "already"]
            /\ UNCHANGED <<calls, listening>>
       ELSE /\ listening' = TRUE
            /\ calls' = calls (+) SetToBag({
                  [op |-> "listen", pc |-> "called", snap |-> GetSubDiscussions]})
            /\ last' = NoCall
    /\ UNCHANGED <<subDiscussions, now, handlers, inbox, relays, sent, emitted>>
    /\ UNCHANGED gmVars
    /\ UNCHANGED userVars

\* lines 67-69 and 546-555: .map calls attachEventsTo on every discussion of
\* the array; each call subscribes one handler (discussion.on) and then
\* starts discussion.listen().
ListenAttach(c) ==
    /\ c.op = "listen"
    /\ c.pc = "called"
    /\ handlers' = handlers (+) BagOfSeq([k \in DOMAIN c.snap |-> c.snap[k].id])
    /\ calls' = (calls (-) SetToBag({c})) (+) SetToBag({[c EXCEPT !.pc = "attached"]})
    /\ last' = NoCall
    /\ UNCHANGED <<subDiscussions, now, listening, inbox, relays, sent, emitted>>
    /\ UNCHANGED gmVars
    /\ UNCHANGED userVars

\* line 70: every discussion.listen() has resolved; listen() resolves.
ListenReturn(c) ==
    /\ c.op = "listen"
    /\ c.pc = "attached"
    /\ calls' = calls (-) SetToBag({c})
    /\ last' = [op |-> "listen", result |-> "ok", snap |-> c.snap]
    /\ UNCHANGED <<subDiscussions, now>>
    /\ UNCHANGED relayVars
    /\ UNCHANGED gmVars
    /\ UNCHANGED userVars

\* The sub-discussion d receives a message with body b and emits "message":
\* every handler subscribed to d runs (lines 548-554) and calls
\* dispatchFrom, which first resolves the source's id and the body.
Incoming(d, b) ==
    /\ Len(inbox) < MaxIncoming
    /\ LET k == Len(inbox) + 1
           heard == CopiesIn(d.id, handlers)
       IN  /\ inbox' = Append(inbox, [id |-> k, on |-> d.id, body |-> b,
                                      heard |-> heard])
           /\ relays' = IF heard = 0 THEN relays
                        ELSE relays (+) [x \in {[msg |-> k, pc |-> "joined",
                                                 targets |-> <<>>, wait |-> {},
                                                 failed |-> {}]} |-> heard]
    /\ last' = NoCall
    /\ UNCHANGED <<subDiscussions, now, calls, listening, handlers, sent, emitted>>
    /\ UNCHANGED gmVars
    /\ UNCHANGED userVars

\* The run r of a handler takes another position.
MoveRelay(r, q) == (relays (-) SetToBag({r})) (+) SetToBag({q})

\* Variant: the body is relayed as it is.
RelayBodyPlain(sourceBody) == sourceBody

\* line 537: the body of the relayed copy.
RelayBody(sourceBody) == ">>" \o sourceBody

\* lines 528-538: getSubDiscussions() is taken, filtered on id !== sourceID
\* and sendMessage is called on every discussion that is left.
RelayFanOut(r) ==
    /\ r.pc = "joined"
    /\ LET sourceID == inbox[r.msg].on
           okSubdiscussions ==
               SelectSeq(GetSubDiscussions, LAMBDA d : d.id /= sourceID)
           targets == [k \in DOMAIN okSubdiscussions |-> okSubdiscussions[k].id]
           sends == [k \in DOMAIN targets |->
                       [msg |-> r.msg, to |-> targets[k],
                        body |-> RelayBody(inbox[r.msg].body)]]
       IN  /\ sent' = sent (+) BagOfSeq(sends)
           /\ relays' = MoveRelay(r, [r EXCEPT !.pc = "sending",
                                               !.targets = targets,
                                               !.wait = Range(targets)])
    /\ last' = NoCall
    /\ UNCHANGED <<subDiscussions, now, calls, listening, handlers, inbox, emitted>>
    /\ UNCHANGED gmVars
    /\ UNCHANGED userVars

\* The sendMessage to discussion t resolves with the sent message.
RelaySendOk(r, t) ==
    /\ r.pc = "sending"
    /\ t \in r.wait
    /\ relays' = MoveRelay(r, [r EXCEPT !.wait = @ \ {t}])
    /\ last' = NoCall
    /\ UNCHANGED <<subDiscussions, now, calls, listening, handlers, inbox, sent, emitted>>
    /\ UNCHANGED gmVars
    /\ UNCHANGED userVars

\* The sendMessage to discussion t rejects.
RelaySendFail(r, t) ==
    /\ r.pc = "sending"
    /\ t \in r.wait
    /\ relays' = MoveRelay(r, [r EXCEPT !.wait = @ \ {t}, !.failed = @ \cup {t}])
    /\ last' = NoCall
    /\ UNCHANGED <<subDiscussions, now, calls, listening, handlers, inbox, sent, emitted>>
    /\ UNCHANGED gmVars
    /\ UNCHANGED userVars

\* The message sendMessage resolved with: the copy sent on discussion t.
SentCopy(k, t) == [id |-> k, on |-> t, body |-> RelayBody(inbox[k].body)]

\* The message the source received.
Original(k) == [id |-> k, on |-> inbox[k].on, body |-> inbox[k].body]

\* lines 541-543 and 551-553: every send resolved, so .map resolves with the
\* sent messages in the order of the discussions; the Meta-Message is built
\* from them and the source message, and the "message" event is emitted.
RelayEmit(r) ==
    /\ r.pc = "sending"
    /\ r.wait = {}
    /\ r.failed = {}
    /\ LET subMessages == [k \in DOMAIN r.targets |-> SentCopy(r.msg, r.targets[k])]
       IN  emitted' = Append(emitted,
                 [type |-> "message",
                  message |-> NewMetaMessage(subMessages \o <<Original(r.msg)>>)])
    /\ relays' = MoveRelay(r, [r EXCEPT !.pc = "emitted"])
    /\ last' = NoCall
    /\ UNCHANGED <<subDiscussions, now, calls, listening, handlers, inbox, sent>>
    /\ UNCHANGED gmVars
    /\ UNCHANGED userVars

\* A send rejected, so .map and with it dispatchFrom reject: the callbacks
\* of lines 541-543 and 551-553 are skipped and nothing handles the
\* rejection.
RelayReject(r) ==
    /\ r.pc = "sending"
    /\ r.failed /= {}
    /\ r.wait = {}
    /\ relays' = MoveRelay(r, [r EXCEPT !.pc = "rejected"])
    /\ last' = NoCall
    /\ UNCHANGED <<subDiscussions, now, calls, listening, handlers, inbox, sent, emitted>>
    /\ UNCHANGED gmVars
    /\ UNCHANGED userVars

\* listen() together with the calls that register sub-discussions.
NextListen ==
    \/ ListenCall
    \/ \E c \in BagToSet(calls) : ListenAttach(c)
    \/ \E c \in BagToSet(calls) : ListenReturn(c)
    \/ \E d \in Discussions : AddSubdiscussionCall(d)
    \/ \E c \in BagToSet(calls) : AddSubdiscussionReturn(c)
    \/ \E k \in Contacts : AddParticipantCall(k)
    \/ \E c \in BagToSet(calls) : AddParticipantResolve(c)
    \/ \E c \in BagToSet(calls) : AddParticipantPush(c)

\* listen() and the messages the sub-discussions receive.
NextRelay ==
    \/ ListenCall
    \/ \E c \in BagToSet(calls) : ListenAttach(c)
    \/ \E c \in BagToSet(calls) : ListenReturn(c)
    \/ \E d \in Range(GetSubDiscussions), b \in IncomingBodies : Incoming(d, b)
    \/ \E r \in BagToSet(relays) : RelayFanOut(r)
    \/ \E r \in BagToSet(relays) : \E t \in r.wait : RelaySendOk(r, t)
    \/ \E r \in BagToSet(relays) : \E t \in r.wait : RelaySendFail(r, t)
    \/ \E r \in BagToSet(relays) : RelayEmit(r)
    \/ \E r \in BagToSet(relays) : RelayReject(r)

(* ------------------- User.getOrCreateDiscussion ----------------------- *)

\* No getOrCreateDiscussion call is made.  `metas` counts the
\* Meta-Discussions the call constructed, `delegated` lists the calls of an
\* account's own getOrCreateDiscussion.
GocIdle ==
    [pc |-> "idle", targets |-> <<>>, rightUser |-> Null,
     heterogeneous |-> FALSE, settled |-> 0, metas |-> 0, delegated |-> <<>>,
     result |-> "none"]

\* The account lists a User can hold: accounts of different ids, in any
\* order.
AccountLists ==
    {a \in UNION {[1..n -> Range(AllAccounts)] : n \in 0..Len(AllAccounts)} :
       \A i, j \in DOMAIN a : i /= j => a[i].id /= a[j].id}

\* The lists of different contacts getOrCreateDiscussion is called with.
TargetLists ==
    {t \in UNION {[1..n -> TargetContacts] : n \in 0..Cardinality(TargetContacts)} :
       \A i, j \in DOMAIN t : i /= j => t[i] /= t[j]}

\* user.ts lines 42-49: getOrCreateDiscussion(contactAccounts) resolves the
\* global ids of the contacts.
GocCall(targets) ==
    /\ goc.pc = "idle"
    /\ goc' = [goc EXCEPT !.pc = "called", !.targets = targets]
    /\ last' = NoCall
    /\ UNCHANGED <<subDiscussions, now, calls, accounts, knows, created>>
    /\ UNCHANGED gmVars
    /\ UNCHANGED relayVars

\* Variant: the first account is taken, whatever it knows.
GocLoopFirstAccount(full, contactsIDs, i, j, st) ==
    IF Len(full) = 0 THEN st
    ELSE [rightUser |-> <<full[1].user>>, heterogeneous |-> FALSE]

\* Variant: a second account that knows a target is not noticed.
RECURSIVE GocLoopNeverHeterogeneous(_, _, _, _, _)
GocLoopNeverHeterogeneous(full, contactsIDs, i, j, st) ==
    IF i > Len(full) THEN st
    ELSE IF j > Len(contactsIDs)
         THEN GocLoopNeverHeterogeneous(full, contactsIDs, i + 1, 1, st)
    ELSE IF contactsIDs[j] \in full[i].contactsIDs /\ st.rightUser = Null
         THEN GocLoopNeverHeterogeneous(full, contactsIDs, i, j + 1,
                                        [st EXCEPT !.rightUser = <<full[i].user>>])
    ELSE GocLoopNeverHeterogeneous(full, contactsIDs, i, j + 1, st)

\* Variant: every account that knows a target after the first test makes
\* the request heterogeneous, also the account already chosen.
RECURSIVE GocLoopNoIdentityTest(_, _, _, _, _)
GocLoopNoIdentityTest(full, contactsIDs, i, j, st) ==
    IF i > Len(full) THEN st
    ELSE IF j > Len(contactsIDs)
         THEN GocLoopNoIdentityTest(full, contactsIDs, i + 1, 1, st)
    ELSE IF contactsIDs[j] \in full[i].contactsIDs
         THEN IF st.rightUser /= Null
              THEN [st EXCEPT !.heterogeneous = TRUE]
              ELSE GocLoopNoIdentityTest(full, contactsIDs, i, j + 1,
                                         [st EXCEPT !.rightUser = <<full[i].user>>])
    ELSE GocLoopNoIdentityTest(full, contactsIDs, i, j + 1, st)

\* user.ts lines 69-83: the two nested loops, at account i and contact j.
\* The inner break leaves the contacts loop and the test of line 80 then
\* leaves the accounts loop.
RECURSIVE GocLoop(_, _, _, _, _)
GocLoop(full, contactsIDs, i, j, st) ==
    IF i > Len(full) THEN st
    ELSE IF j > Len(contactsIDs) THEN GocLoop(full, contactsIDs, i + 1, 1, st)
    ELSE IF contactsIDs[j] \in full[i].contactsIDs
         THEN IF st.rightUser /= Null /\ st.rightUser[1] /= full[i].user
              THEN [st EXCEPT !.heterogeneous = TRUE]
              ELSE GocLoop(full, contactsIDs, i, j + 1,
                           [st EXCEPT !.rightUser = <<full[i].user>>])
    ELSE GocLoop(full, contactsIDs, i, j + 1, st)

\* user.ts lines 50-87: getAccounts() is taken, the contacts of every
\* account are resolved, the loops run and the call rejects when no account
\* was retained.
GocScan ==
    /\ goc.pc = "called"
    /\ LET fullUserAccounts ==
               [i \in DOMAIN accounts |->
                  [user |-> accounts[i], contactsIDs |-> knows[accounts[i].id]]]
           st == GocLoop(fullUserAccounts, goc.targets, 1, 1,
                         [rightUser |-> Null, heterogeneous |-> FALSE])
       IN  goc' = IF st.rightUser = Null
                  THEN [goc EXCEPT
                          !.pc = "rejected",
                          !.heterogeneous = st.heterogeneous,
                          !.result = "One of the contacts is unknown by the current user."]
                  ELSE [goc EXCEPT !.pc = "decided",
                                   !.rightUser = st.rightUser,
                                   !.heterogeneous = st.heterogeneous]
    /\ last' = NoCall
    /\ UNCHANGED <<subDiscussions, now, calls, accounts, knows, created>>
    /\ UNCHANGED gmVars
    /\ UNCHANGED relayVars

\* user.ts lines 90-104: a heterogeneous request constructs a
\* Meta-Discussion with an empty registry and calls addParticipant for every
\* contact in one go (_.map); the other requests are handed to the retained
\* account's own getOrCreateDiscussion, whose result is returned.
GocBranch ==
    /\ goc.pc = "decided"
    /\ IF goc.heterogeneous
       THEN /\ subDiscussions' = <<>>
            /\ calls' = calls (+) BagOfSeq(
                  [k \in DOMAIN goc.targets |->
                     [op |-> "addParticipant", pc |-> "called",
                      contact |-> goc.targets[k], snap |-> <<>>]])
            /\ goc' = [goc EXCEPT !.pc = "adding", !.metas = @ + 1]
       ELSE /\ goc' = [goc EXCEPT
                         !.pc = "resolved",
                         !.result = "simple",
                         !.delegated = Append(@, [to |-> goc.rightUser[1].id,
                                                  contacts |-> goc.targets])]
            /\ UNCHANGED <<subDiscussions, calls>>
    /\ last' = NoCall
    /\ UNCHANGED <<now, accounts, knows, created>>
    /\ UNCHANGED gmVars
    /\ UNCHANGED relayVars

\* user.ts line 100: every addParticipant resolved; the call resolves with
\* the Meta-Discussion.
GocResolve ==
    /\ goc.pc = "adding"
    /\ goc.settled = Len(goc.targets)
    /\ goc' = [goc EXCEPT !.pc = "resolved", !.result = "meta"]
    /\ last' = NoCall
    /\ UNCHANGED <<subDiscussions, now, calls, accounts, knows, created>>
    /\ UNCHANGED gmVars
    /\ UNCHANGED relayVars

\* getOrCreateDiscussion, and isHeterogeneous() on the Meta-Discussion it
\* resolved with.
NextUser ==
    \/ \E targets \in TargetLists : GocCall(targets)
    \/ GocScan
    \/ GocBranch
    \/ \E c \in BagToSet(calls) : AddParticipantResolve(c)
    \/ \E c \in BagToSet(calls) : AddParticipantPush(c)
    \/ GocResolve
    \/ goc.pc = "resolved" /\ goc.result = "meta" /\ IsHeterogeneousCall
    \/ \E c \in BagToSet(calls) : IsHeterogeneousReturn(c)

\* The registry operations called one after the other: a call is made only
\* when no call is suspended.
NextSerial ==
    \/ Tick
    \/ calls = EmptyBag /\ \E d \in Discussions : AddSubdiscussionCall(d)
    \/ \E c \in BagToSet(calls) : AddSubdiscussionReturn(c)
    \/ calls = EmptyBag /\ \E d \in Discussions : RemoveSubdiscussionCall(d)
    \/ \E c \in BagToSet(calls) : RemoveSubdiscussionReturn(c)
    \/ calls = EmptyBag /\ \E k \in Contacts : AddParticipantCall(k)
    \/ \E c \in BagToSet(calls) : AddParticipantResolve(c)
    \/ \E c \in BagToSet(calls) : AddParticipantPush(c)

(* ------------- User.addAccount / removeAccount / getAllDiscussions ---- *)

\* Array.prototype.indexOf: the 0-based index of the first element equal to
\* x, -1 when there is none.
IndexOf(s, x) ==
    IF \E k \in DOMAIN s : s[k] = x
    THEN (CHOOSE k \in DOMAIN s :
            s[k] = x /\ \A j \in 1..(k - 1) : s[j] /= x) - 1
    ELSE -1

\* array.splice(start, 1): a negative start counts from the end, a start
\* past the end removes nothing.
Splice1(s, start) ==
    LET from == IF start >= 0 THEN start
                ELSE IF Len(s) + start < 0 THEN 0 ELSE Len(s) + start
    IN  IF from < Len(s) THEN RemoveAt(s, from + 1) ELSE s

\* User.getAccountsIDs: the global ids of this.accounts, in order.
GetAccountsIDs(accts) == [k \in DOMAIN accts |-> accts[k].id]

\* The addAccount calls in flight that will push.
PendingPushes ==
    LET adding == {c \in BagToSet(calls) :
                     c.op = "addAccount" /\ IndexOf(c.ids, c.account.id) = -1}
    IN  IF adding = {} THEN 0
        ELSE BagCardinality([c \in adding |-> calls[c]])

\* User.addAccount(account), up to the point where the ids were read: the
\* call is suspended until account.getGlobalId() resolves.
AddAccountCall(a) ==
    /\ BagCardinality(calls) < MaxCalls
    /\ \/ IndexOf(GetAccountsIDs(accounts), a.id) /= -1
       \/ Len(accounts) + PendingPushes < MaxAccounts
    /\ calls' = calls (+) SetToBag({[op |-> "addAccount", account |-> a,
                                     ids |-> GetAccountsIDs(accounts)]})
    /\ last' = NoCall
    /\ UNCHANGED <<subDiscussions, now, userVars>>
    /\ UNCHANGED gmVars
    /\ UNCHANGED relayVars

\* A variant of the test of addAccount that pushes whatever the ids are.
AddAccountDecideAlwaysPush(accts, ids, a) ==
    [accounts |-> Append(accts, a), result |-> "ok"]

\* Lines 218-224 of addAccount: the test is made on the ids read at the
\* call, the push on this.accounts as it is now.
AddAccountDecide(accts, ids, a) ==
    IF IndexOf(ids, a.id) = -1
    THEN [accounts |-> Append(accts, a), result |-> "ok"]
    ELSE [accounts |-> accts, result |-> "Already existing account"]

\* What a call on the accounts returned: the argument, the ids it had read,
\* the outcome and this.accounts before the step.
Settled(c, result) ==
    [op |-> c.op, arg |-> c.account, ids |-> c.ids, result |-> result,
     before |-> accounts]

AddAccountReturn(c) ==
    /\ c.op = "addAccount"
    /\ LET r == AddAccountDecide(accounts, c.ids, c.account)
       IN  /\ accounts' = r.accounts
           /\ last' = Settled(c, r.result)
    /\ calls' = calls (-) SetToBag({c})
    /\ UNCHANGED <<subDiscussions, now, knows, created, goc>>
    /\ UNCHANGED gmVars
    /\ UNCHANGED relayVars

\* User.removeAccount(account), up to the point where the ids were read.
RemoveAccountCall(a) ==
    /\ BagCardinality(calls) < MaxCalls
    /\ calls' = calls (+) SetToBag({[op |-> "removeAccount", account |-> a,
                                     ids |-> GetAccountsIDs(accounts)]})
    /\ last' = NoCall
    /\ UNCHANGED <<subDiscussions, now, userVars>>
    /\ UNCHANGED gmVars
    /\ UNCHANGED relayVars

\* A variant of the test of removeAccount that splices whatever the ids are.
RemoveAccountDecideAlwaysSplice(accts, ids, a) ==
    [accounts |-> Splice1(accts, IndexOf(ids, a.id)), result |-> "ok"]

\* Lines 240-246 of removeAccount: the index is the one the account has in
\* the ids read at the call, the splice is made on this.accounts as it is
\* now.
RemoveAccountDecide(accts, ids, a) ==
    IF IndexOf(ids, a.id) = -1
    THEN [accounts |-> accts, result |-> "Unknown account"]
    ELSE [accounts |-> Splice1(accts, IndexOf(ids, a.id)), result |-> "ok"]

RemoveAccountReturn(c) ==
    /\ c.op = "removeAccount"
    /\ LET r == RemoveAccountDecide(accounts, c.ids, c.account)
       IN  /\ accounts' = r.accounts
           /\ last' = Settled(c, r.result)
    /\ calls' = calls (-) SetToBag({c})
    /\ UNCHANGED <<subDiscussions, now, knows, created, goc>>
    /\ UNCHANGED gmVars
    /\ UNCHANGED relayVars

\* account.getDiscussions(): the simple discussions of the account.
AccountDiscussions(a) == SelectSeq(AllDiscussions, LAMBDA d : d.account = a.id)

\* _.concat(array, values): a new array; `array` is left as it was.
LodashConcat(array, values) == array \o values

\* User.getAllDiscussions(), with no options, up to the point where
\* getAllSimpleDiscussions asked every account of this.accounts for its
\* discussions (_.map runs during the call).
GetAllDiscussionsCall ==
    /\ BagCardinality(calls) < MaxCalls
    /\ calls' = calls (+) SetToBag({[op |-> "getAllDiscussions",
                                     owned |-> accounts,
                                     todo |-> DOMAIN accounts,
                                     discussions |-> <<>>]})
    /\ last' = NoCall
    /\ UNCHANGED <<subDiscussions, now, userVars>>
    /\ UNCHANGED gmVars
    /\ UNCHANGED relayVars

\* Lines 137-157: the discussions of one account arrive; with no options the
\* filter keeps them all.  The array _.concat builds is dropped: the local
\* array `discussions` stays as it was.
GetAllSimpleDiscussionsStep(c, k) ==
    /\ c.op = "getAllDiscussions"
    /\ k \in c.todo
    /\ LET discuss == AccountDiscussions(c.owned[k])
           dropped == LodashConcat(c.discussions, discuss)
       IN  calls' = (calls (-) SetToBag({c}))
                    (+) SetToBag({[c EXCEPT !.todo = @ \ {k}]})
    /\ last' = NoCall
    /\ UNCHANGED <<subDiscussions, now, userVars>>
    /\ UNCHANGED gmVars
    /\ UNCHANGED relayVars

\* User.getAllMetaDiscussions: always rejected.
GetAllMetaDiscussions == [rejected |-> TRUE, reason |-> "todo"]

\* Lines 118-125: getAllSimpleDiscussions resolved with its local array;
\* getAllMetaDiscussions settles, and on a rejection the last handler is
\* skipped.
GetAllDiscussionsReturn(c) ==
    /\ c.op = "getAllDiscussions"
    /\ c.todo = {}
    /\ LET meta == GetAllMetaDiscussions
       IN  last' = [op |-> "getAllDiscussions", owned |-> c.owned,
                    result |-> IF meta.rejected THEN meta.reason ELSE "ok",
                    value |-> c.discussions]
    /\ calls' = calls (-) SetToBag({c})
    /\ UNCHANGED <<subDiscussions, now, userVars>>
    /\ UNCHANGED gmVars
    /\ UNCHANGED relayVars

\* The call is made while at most one other call is suspended.
PairsOnly == BagCardinality(calls) <= 1

\* The accounts of a User: addAccount and removeAccount calls that overlap
\* two by two.
NextAccounts ==
    \/ PairsOnly /\ \E a \in Range(AllAccounts) : AddAccountCall(a)
    \/ \E c \in BagToSet(calls) : AddAccountReturn(c)
    \/ PairsOnly /\ \E a \in Range(AllAccounts) : RemoveAccountCall(a)
    \/ \E c \in BagToSet(calls) : RemoveAccountReturn(c)

\* The list of all the discussions of a User, asked for while its accounts
\* are added.
NextAllDiscussions ==
    \/ PairsOnly /\ \E a \in Range(AllAccounts) : AddAccountCall(a)
    \/ \E c \in BagToSet(calls) : AddAccountReturn(c)
    \/ PairsOnly /\ GetAllDiscussionsCall
    \/ \E c \in BagToSet(calls) :
          \E k \in 1..MaxAccounts : GetAllSimpleDiscussionsStep(c, k)
    \/ \E c \in BagToSet(calls) : GetAllDiscussionsReturn(c)

(* ------------------- MetaDiscussion.getParticipants ------------------- *)

\* SimpleDiscussion.getParticipants: the contacts that take part in the
\* discussion.
DiscussionParticipants(d) ==
    CASE d.id = "x:d1" -> <<"c1", "c3">>
      [] d.id = "y:d2" -> <<"c2">>
      [] OTHER -> <<"c1">>

\* getParticipants(options): max is options.maxParticipants, 0 when there
\* are no options or no maxParticipants.  The sub-discussions are read and
\* each is asked for its participants.
GetParticipantsCall(max) ==
    /\ calls = EmptyBag
    /\ calls' = SetToBag({[op |-> "getParticipants", max |-> max,
                           snap |-> GetSubDiscussions,
                           todo |-> DOMAIN subDiscussions,
                           part |-> <<>>, counter |-> 0]})
    /\ last' = NoCall
    /\ UNCHANGED <<subDiscussions, now>>
    /\ UNCHANGED gmVars
    /\ UNCHANGED <<relayVars, userVars>>

\* Lines 210-222, when the participants of one sub-discussion arrive: the
\* counter is updated; the array _.concat builds is dropped in each of the
\* three branches, so the local array `part` stays as it was.
PartsArrive(c, parts) ==
    IF c.max /= 0
    THEN IF c.counter + Len(parts) < c.max
         THEN LET dropped == LodashConcat(c.part, parts)
              IN  [c EXCEPT !.counter = @ + Len(parts)]
         ELSE IF c.counter /= c.max
         THEN LET dropped == LodashConcat(c.part,
                                          SubSeq(parts, 1, c.max - c.counter))
              IN  [c EXCEPT !.counter = @ + (c.max - c.counter)]
         ELSE c
    ELSE LET dropped == LodashConcat(c.part, parts)
         IN  [c EXCEPT !.counter = @ + Len(parts)]

GetParticipantsPart(c, k) ==
    /\ c.op = "getParticipants"
    /\ k \in c.todo
    /\ calls' = (calls (-) SetToBag({c}))
                (+) SetToBag({[PartsArrive(c, DiscussionParticipants(c.snap[k]))
                                 EXCEPT !.todo = @ \ {k}]})
    /\ last' = NoCall
    /\ UNCHANGED <<subDiscussions, now>>
    /\ UNCHANGED gmVars
    /\ UNCHANGED <<relayVars, userVars>>

\* .thenReturn(part), line 225.
GetParticipantsReturn(c) ==
    /\ c.op = "getParticipants"
    /\ c.todo = {}
    /\ last' = [op |-> "getParticipants", max |-> c.max, snap |-> c.snap,
                result |-> "ok", value |-> c.part]
    /\ calls' = calls (-) SetToBag({c})
    /\ UNCHANGED <<subDiscussions, now>>
    /\ UNCHANGED gmVars
    /\ UNCHANGED <<relayVars, userVars>>

NextParticipants ==
    \/ \E max \in 0..MaxParts : GetParticipantsCall(max)
    \/ \E c \in BagToSet(calls) :
          \E k \in 1..MaxEntries : GetParticipantsPart(c, k)
    \/ \E c \in BagToSet(calls) : GetParticipantsReturn(c)

(* ------------------------- initial states ----------------------------- *)

\* The streams of n messages: message k has a body, a creation time and the
\* registry entry whose sub-discussion holds it; a stream lists its messages
\* in chronological order.
StreamsOf(n, body, date, src) ==
    [e \in 1..NumEntries |->
       SelectSeq([k \in 1..n |-> [id |-> k, body |-> BodySeq[body[k]],
                                  date |-> date[k], src |-> src[k]]],
                 LAMBDA m : m.src = e)]

Chronological(n, date) == \A k \in 1..(n - 1) : date[k] <= date[k + 1]

\* Bodies are only ever compared for equality, so one naming of each pattern
\* of equal and different bodies is enough: message k uses a body already
\* used by an earlier message or the first unused one.
FirstUse(n, body) ==
    \A k \in 1..n : body[k] <= 1 + Cardinality({body[j] : j \in 1..(k - 1)})

InitGetMessages(maxN, dates) ==
    /\ \E n \in 0..maxN :
         \E body \in [1..n -> DOMAIN BodySeq], date \in [1..n -> dates],
            src \in [1..n -> 1..NumEntries] :
           /\ Chronological(n, date)
           /\ FirstUse(n, body)
           /\ stream = StreamsOf(n, body, date, src)
    /\ opts = DefaultOpts
    /\ retr = <<>>
    /\ messages = <<>>
    /\ datedMsgs = <<>>
    /\ metaMessages = <<>>
    /\ gmPc = "idle"

InitRegistryIdle ==
    /\ now = 0
    /\ calls = EmptyBag
    /\ last = NoCall

\* No getMessages call is made.
InitNoMessages ==
    /\ stream = <<>>
    /\ eager = FALSE
    /\ opts = DefaultOpts
    /\ retr = <<>>
    /\ messages = <<>>
    /\ datedMsgs = <<>>
    /\ metaMessages = <<>>
    /\ gmPc = "idle"

\* this.listening is never assigned by the constructor: it is undefined,
\* which the test of line 61 takes as false.
InitNotListening ==
    /\ listening = FALSE
    /\ handlers = EmptyBag
    /\ inbox = <<>>
    /\ relays = EmptyBag
    /\ sent = EmptyBag
    /\ emitted = <<>>

\* The owning user and what its accounts know.
InitOwner ==
    /\ accounts = OwnerAccounts
    /\ knows = OwnerKnows
    /\ created = 0
    /\ goc = GocIdle

\* A Meta-Discussion constructed with sub-discussions that were all added at
\* time 0 and are all active: every message is inside its membership window.
InitSweep ==
    /\ subDiscussions = [e \in 1..NumEntries |-> Entry(GmDiscussions[e], 0, Null)]
    /\ eager = FALSE
    /\ InitRegistryIdle
    /\ InitGetMessages(MaxMsgs, Dates)
    /\ InitNotListening
    /\ InitOwner

SpecSweep == InitSweep /\ [][NextMessages]_vars

\* The membership windows an entry can have: added at a, active or removed
\* at r >= a.
Windows ==
    {[added |-> a, removed |-> Null] : a \in 0..MaxNow}
    \cup {[added |-> a, removed |-> <<r>>] : a \in 0..MaxNow, r \in 0..MaxNow}

\* A Meta-Discussion constructed with sub-discussions of any membership
\* windows; the retrievals read their options during the call or later.
InitWindow ==
    /\ \E w \in [1..NumEntries -> {x \in Windows :
                                     x.removed = Null \/ x.added <= x.removed[1]}] :
         subDiscussions = [e \in 1..NumEntries |->
                             Entry(GmDiscussions[e], w[e].added, w[e].removed)]
    /\ eager \in BOOLEAN
    /\ InitRegistryIdle
    /\ InitGetMessages(MaxWindowMsgs, 0..MaxNow)
    /\ InitNotListening
    /\ InitOwner

SpecWindow == InitWindow /\ [][NextMessages]_vars

\* The registries a Meta-Discussion is constructed with: at most MaxEntries
\* entries of different discussions, added at time 0, active or removed, with
\* at most one active entry per driver and local account.
OneActivePerAccount(reg) ==
    \A i, j \in DOMAIN reg :
       (/\ i /= j
        /\ reg[i].removed = Null
        /\ reg[j].removed = Null)
       => \/ reg[i].subdiscussion.driver /= reg[j].subdiscussion.driver
          \/ reg[i].subdiscussion.account /= reg[j].subdiscussion.account

ConstructedWith ==
    {reg \in UNION {[1..n -> {Entry(d, 0, r) : d \in Discussions,
                                              r \in {Null, <<0>>}}] :
                    n \in 0..MaxEntries} :
       /\ \A i, j \in DOMAIN reg :
             i /= j => reg[i].subdiscussion /= reg[j].subdiscussion
       /\ OneActivePerAccount(reg)}

InitRegistry ==
    /\ subDiscussions \in ConstructedWith
    /\ InitRegistryIdle
    /\ stream = <<>>
    /\ eager = FALSE
    /\ opts = DefaultOpts
    /\ retr = <<>>
    /\ messages = <<>>
    /\ datedMsgs = <<>>
    /\ metaMessages = <<>>
    /\ gmPc = "idle"
    /\ InitNotListening
    /\ InitOwner

SpecRegistry == InitRegistry /\ [][NextRegistry]_vars

SpecHeterogeneous == InitRegistry /\ [][NextHeterogeneous]_vars

\* new MetaDiscussion(user): the registry is empty.
InitSerial ==
    /\ subDiscussions = <<>>
    /\ InitRegistryIdle
    /\ InitNoMessages
    /\ InitNotListening
    /\ InitOwner

SpecSerial == InitSerial /\ [][NextSerial]_vars

\* A User with accounts that know any of the target contacts.
InitUser ==
    /\ accounts \in AccountLists
    /\ knows \in [AccountIds -> SUBSET TargetContacts]
    /\ created = 0
    /\ goc = GocIdle
    /\ subDiscussions = <<>>
    /\ InitRegistryIdle
    /\ InitNoMessages
    /\ InitNotListening

SpecUser == InitUser /\ [][NextUser]_vars

\* A Meta-Discussion constructed with a registry, not listening yet.
InitListen ==
    /\ subDiscussions \in ConstructedWith
    /\ InitRegistryIdle
    /\ InitNoMessages
    /\ InitNotListening
    /\ InitOwner

SpecListen == InitListen /\ [][NextListen]_vars

\* The registries a relaying Meta-Discussion is constructed with: at most
\* MaxSubs entries of different discussions of RelayDiscussions, active or
\* removed.
RelayRegistries ==
    {reg \in UNION {[1..n -> {Entry(d, 0, r) : d \in RelayDiscussions,
                                               r \in {Null, <<0>>}}] :
                    n \in 0..MaxSubs} :
       \A i, j \in DOMAIN reg :
          i /= j => reg[i].subdiscussion /= reg[j].subdiscussion}

InitRelay ==
    /\ subDiscussions \in RelayRegistries
    /\ InitRegistryIdle
    /\ InitNoMessages
    /\ InitNotListening
    /\ InitOwner

SpecRelay == InitRelay /\ [][NextRelay]_vars

\* new User(username): no account yet.
InitAccounts ==
    /\ accounts = <<>>
    /\ knows = OwnerKnows
    /\ created = 0
    /\ goc = GocIdle
    /\ subDiscussions = <<>>
    /\ InitRegistryIdle
    /\ InitNoMessages
    /\ InitNotListening

SpecAccounts == InitAccounts /\ [][NextAccounts]_vars

SpecAllDiscussions == InitAccounts /\ [][NextAllDiscussions]_vars

SpecParticipants == InitListen /\ [][NextParticipants]_vars

(* ------------------- properties of getMessages ------------------------ *)

Done == gmPc = "done"

\* The positions (k, p) of the returned Meta-Messages that hold message m.
Places(m) ==
    UNION {{<<k, p>> : p \in {x \in DOMAIN metaMessages[k] :
                                metaMessages[k][x] = m}} :
           k \in DOMAIN metaMessages}

InOutput(m) == \E k \in DOMAIN metaMessages : m \in Range(metaMessages[k])

\* The Meta-Messages that hold both a and b.
MetasWithBoth(a, b) ==
    {k \in DOMAIN metaMessages :
       a \in Range(metaMessages[k]) /\ b \in Range(metaMessages[k])}

Apart(a, b) == IF a.date >= b.date THEN a.date - b.date ELSE b.date - a.date

EarliestDate(meta) ==
    CHOOSE t \in {meta[p].date : p \in DOMAIN meta} :
       \A p \in DOMAIN meta : t <= meta[p].date

\* C1: two pooled messages with equal bodies created more than 5 minutes
\* apart are never placed in the same Meta-Message.
C1_FarApartNeverMerged ==
    Done =>
      \A p, q \in DOMAIN messages :
         (/\ p /= q
          /\ messages[p].body = messages[q].body
          /\ Apart(messages[p], messages[q]) > FiveMinutes)
         => MetasWithBoth(messages[p], messages[q]) = {}

\* C2: every message that survived the membership-window filtering is held
\* by exactly one returned Meta-Message, at exactly one place, and the
\* Meta-Messages hold nothing else.
C2_EachMessageExactlyOnce ==
    Done =>
      /\ \A q \in DOMAIN messages : Cardinality(Places(messages[q])) = 1
      /\ \A k \in DOMAIN metaMessages :
            Range(metaMessages[k]) \subseteq Range(messages)

\* C2 witness: a sweep that folded and removed two duplicates of one message.
C2_Witness ==
    /\ Done
    /\ \E k \in DOMAIN metaMessages : Len(metaMessages[k]) >= 3

\* C3: two pooled messages with equal bodies created within 5 minutes of
\* each other are held together by exactly one Meta-Message.
C3_NearEqualMerged ==
    Done =>
      \A p, q \in DOMAIN messages :
         (/\ p /= q
          /\ messages[p].body = messages[q].body
          /\ Apart(messages[p], messages[q]) <= FiveMinutes)
         => Cardinality(MetasWithBoth(messages[p], messages[q])) = 1

\* C3 witness: two equal bodies within 5 minutes with a message of another
\* body strictly between them in time, and a third message of the same body.
C3_Witness ==
    /\ Done
    /\ \E p, q, r \in DOMAIN messages :
          /\ messages[p].body = messages[q].body
          /\ messages[r].body /= messages[p].body
          /\ messages[p].date < messages[r].date
          /\ messages[r].date < messages[q].date
          /\ messages[q].date - messages[p].date <= FiveMinutes
          /\ MetasWithBoth(messages[p], messages[q]) /= {}

\* C4: when the pooled messages have pairwise distinct bodies, the result
\* has one Meta-Message per message, each holding that single message.
C4_DistinctBodiesNotMerged ==
    (/\ Done
     /\ \A p, q \in DOMAIN messages :
           p /= q => messages[p].body /= messages[q].body)
    => /\ Len(metaMessages) = Len(messages)
       /\ \A k \in DOMAIN metaMessages : Len(metaMessages[k]) = 1
       /\ {metaMessages[k][1] : k \in DOMAIN metaMessages} = Range(messages)

\* C4 witness: three messages with three different bodies were swept.
C4_Witness ==
    /\ Done
    /\ Len(messages) >= 3
    /\ \A p, q \in DOMAIN messages :
          p /= q => messages[p].body /= messages[q].body
    /\ Len(metaMessages) >= 3

\* C5: the returned Meta-Messages are in ascending order of the creation
\* time of their earliest member.
C5_SortedByEarliestMember ==
    Done =>
      \A k, l \in DOMAIN metaMessages :
         k < l => EarliestDate(metaMessages[k]) <= EarliestDate(metaMessages[l])

\* C5 witness: messages of two sub-discussions, pushed out of chronological
\* order, come out as several Meta-Messages, one of them with two members.
C5_Witness ==
    /\ Done
    /\ Len(metaMessages) >= 2
    /\ \E p, q \in DOMAIN messages :
          /\ p < q
          /\ messages[p].date > messages[q].date
          /\ messages[p].src /= messages[q].src
    /\ \E k \in DOMAIN metaMessages : Len(metaMessages[k]) >= 2

\* C6: a message fetched from an entry that has a removed date is not in the
\* output when it was created at or after that date, and is in the output
\* when it was created strictly before it.
C6_RemovedWindow ==
    Done =>
      \A e \in DOMAIN retr : \A m \in Range(retr[e].got) :
         subDiscussions[e].removed /= Null =>
            (InOutput(m) <=> m.date < subDiscussions[e].removed[1])

\* C6 witness: of two messages fetched from a removed entry, the one created
\* at the removed date was dropped and the one created before it was kept.
C6_Witness ==
    /\ Done
    /\ \E e \in DOMAIN retr : \E m1, m2 \in Range(retr[e].got) :
          /\ subDiscussions[e].removed /= Null
          /\ m1.date = subDiscussions[e].removed[1]
          /\ ~InOutput(m1)
          /\ m2.date < subDiscussions[e].removed[1]
          /\ InOutput(m2)

\* C7: every entry's messages are retrieved with that entry's own added date
\* as lower bound: no message created before its own entry's added date is
\* in the output.
C7_OwnAddedIsLowerBound ==
    Done =>
      \A e \in DOMAIN retr : \A m \in Range(stream[e]) :
         InOutput(m) => m.date >= subDiscussions[e].added

(* ----------------- properties of the registry operations -------------- *)

\* The errors that report that the discussion was not found.
NotFound == {"No such discussion", "Empty meta-discussion"}

\* C8: removeSubdiscussion of a discussion that is the same as an active
\* entry succeeds and sets that entry's removed date to the current time.
C8_RemoveActiveEntry ==
    (last.op = "removeSubdiscussion" /\ last.pre)
    => /\ last.result = "ok"
       /\ \E i \in DOMAIN last.before :
             /\ isTheSameAs(last.arg, last.before[i].subdiscussion)
             /\ last.before[i].removed = Null
             /\ subDiscussions[i].removed = <<now>>

\* C9: removeSubdiscussion of a discussion that is no active entry (never
\* added, or already removed) fails with a not-found error and leaves every
\* registry entry as it was.
C9_RemoveMissingFails ==
    (last.op = "removeSubdiscussion" /\ ~last.pre)
    => /\ last.result \in NotFound
       /\ subDiscussions = last.before

\* C9 witness: a removeSubdiscussion of an already removed discussion has
\* just failed, in a registry that also has an active entry, at a time later
\* than the first removal.
C9_Witness ==
    /\ last.op = "removeSubdiscussion"
    /\ ~last.pre
    /\ last.result = "No such discussion"
    /\ \E i \in DOMAIN last.before :
          /\ isTheSameAs(last.arg, last.before[i].subdiscussion)
          /\ last.before[i].removed /= Null
          /\ last.before[i].removed[1] < now
    /\ \E i \in DOMAIN last.before : last.before[i].removed = Null

\* C10: addSubdiscussion of a discussion whose global id an entry (active or
\* removed) already carries fails with "Already existing", merges nothing
\* and leaves the registry as it was.
C10_AddExistingIdFails ==
    (last.op = "addSubdiscussion" /\ last.pre)
    => /\ last.result = "Already existing"
       /\ subDiscussions = last.before

\* C10 witness: an addSubdiscussion of a discussion whose id a removed entry
\* carries has just failed, in a registry whose active entry has the
\* discussion's driver and local account.
C10_Witness ==
    /\ last.op = "addSubdiscussion"
    /\ last.pre
    /\ last.result = "Already existing"
    /\ \E i, j \in DOMAIN last.before :
          /\ last.before[i].subdiscussion.id = last.arg.id
          /\ last.before[i].removed /= Null
          /\ last.before[j].removed = Null
          /\ last.before[j].subdiscussion.driver = last.arg.driver
          /\ last.before[j].subdiscussion.account = last.arg.account

\* The active entries of reg whose discussion has d's driver and local
\* account.
ActiveForPair(reg, d) ==
    {i \in DOMAIN reg : /\ reg[i].removed = Null
                        /\ reg[i].subdiscussion.driver = d.driver
                        /\ reg[i].subdiscussion.account = d.account}

\* C11: an addSubdiscussion made after a call that left an active entry of
\* the same driver and local account but another id, with no call between
\* them, appends no entry: the discussion is merged into that entry's
\* discussion, which stays the only active entry of the pair.
C11_SecondAddIsMerged ==
    (/\ last.op = "addSubdiscussion"
     /\ \E i \in ActiveForPair(last.before, last.arg) :
           last.before[i].subdiscussion.id /= last.arg.id)
    => /\ last.result = "ok"
       /\ Len(subDiscussions) = Len(last.before)
       /\ Cardinality(ActiveForPair(subDiscussions, last.arg)) = 1
       /\ \A i \in ActiveForPair(subDiscussions, last.arg) :
             /\ subDiscussions[i].subdiscussion.id /= last.arg.id
             /\ last.arg.id \in subDiscussions[i].merged

\* C11 witness: x:d3 has just been merged into the entry an earlier
\* addSubdiscussion made for x:d1.
C11_Witness ==
    /\ last.op = "addSubdiscussion"
    /\ last.arg.id = "x:d3"
    /\ last.result = "ok"
    /\ Len(subDiscussions) = 1
    /\ subDiscussions[1].subdiscussion.id = "x:d1"
    /\ subDiscussions[1].merged = {"x:d3"}

\* C12: with calls made one after the other on a registry that starts
\* empty, at most one active entry exists per driver and local account.
C12_OneActiveEntryPerPair ==
    \A i, j \in DOMAIN subDiscussions :
       (/\ i /= j
        /\ subDiscussions[i].removed = Null
        /\ subDiscussions[j].removed = Null)
       => \/ subDiscussions[i].subdiscussion.driver /=
                subDiscussions[j].subdiscussion.driver
          \/ subDiscussions[i].subdiscussion.account /=
                subDiscussions[j].subdiscussion.account

\* C12 witness: the registry holds an entry that addParticipant created and
\* an entry that addSubdiscussion appended, and a later addParticipant for a
\* contact of the first entry's account has just been delegated.
C12_Witness ==
    /\ Len(subDiscussions) = 2
    /\ \E i \in DOMAIN subDiscussions :
          subDiscussions[i].subdiscussion \in Discussions
    /\ \E i \in DOMAIN subDiscussions :
          subDiscussions[i].subdiscussion \notin Discussions
    /\ last.op = "addParticipant"
    /\ last.result = "delegated"

\* The active entries of the registry differ in driver or in local account.
ActiveEntriesDiffer ==
    \E i, j \in DOMAIN subDiscussions :
       /\ subDiscussions[i].removed = Null
       /\ subDiscussions[j].removed = Null
       /\ \/ subDiscussions[i].subdiscussion.driver /=
                subDiscussions[j].subdiscussion.driver
          \/ subDiscussions[i].subdiscussion.account /=
                subDiscussions[j].subdiscussion.account

\* C13: isHeterogeneous resolves true exactly when two active entries differ
\* in driver or in local account; removed entries do not count.
C13_HeterogeneousIffActiveDiffer ==
    last.op = "isHeterogeneous" => (last.result <=> ActiveEntriesDiffer)

(* ------------------------ properties of the relay -------------------- *)

\* C14: listen is idempotent.  On a registry of different discussions, no
\* discussion ever carries more than one handler of the Meta-Discussion,
\* however many listen() calls are made and however they overlap; when the
\* listen() that set the flag resolves, every sub-discussion carries the
\* handler exactly once; and no received message starts more than one run
\* of the relay.
C14_ListenIdempotent ==
    /\ \A id \in BagToSet(handlers) : CopiesIn(id, handlers) <= 1
    /\ (last.op = "listen" /\ last.result = "already") => listening
    /\ (last.op = "listen" /\ last.result = "ok")
       => \A i \in DOMAIN subDiscussions :
             CopiesIn(subDiscussions[i].subdiscussion.id, handlers) = 1
    /\ \A k \in DOMAIN inbox :
          BagCardinality([r \in {x \in BagToSet(relays) : x.msg = k} |->
                            relays[r]]) <= 1

\* C14 witness: a second listen() has just resolved while the first one,
\* made on a registry of two entries, has not attached its handlers yet.
C14_Witness ==
    /\ last.op = "listen"
    /\ last.result = "already"
    /\ \E c \in BagToSet(calls) :
          c.op = "listen" /\ c.pc = "called" /\ Len(c.snap) = 2

\* C15: while the Meta-Discussion is listening and no call is suspended,
\* every active entry's discussion carries the relay handler.
C15_RelayCoverage ==
    (listening /\ calls = EmptyBag)
    => \A i \in DOMAIN subDiscussions :
          subDiscussions[i].removed = Null
          => CopiesIn(subDiscussions[i].subdiscussion.id, handlers) >= 1

\* The relayed form of a body.
Quoted(b) == CASE b = "hi" -> ">>hi"

\* The runs of the handler for message k.
RunsOf(k) == {r \in BagToSet(relays) : r.msg = k}

\* The emitted events whose Meta-Message holds message k as received.
EventsOf(k) ==
    {i \in DOMAIN emitted :
       \E p \in DOMAIN emitted[i].message :
          emitted[i].message[p] = [id |-> k, on |-> inbox[k].on,
                                   body |-> inbox[k].body]}

\* The sendMessage calls made on discussion t for message k.
SendsTo(k, t) == {x \in BagToSet(sent) : x.msg = k /\ x.to = t}

\* The ids of the active entries other than the source of message k.
ActiveSiblings(k) ==
    {subDiscussions[i].subdiscussion.id :
       i \in {j \in DOMAIN subDiscussions :
                /\ subDiscussions[j].removed = Null
                /\ subDiscussions[j].subdiscussion.id /= inbox[k].on}}

\* C16: a message with body b received on a sub-discussion that carries the
\* handler once is relayed in one round: once the sends are made, each other
\* active sub-discussion has exactly one send, of body ">>" + b, and the
\* source has none; an event is emitted only when every send completed, at
\* most once, with a Meta-Message of the original and one copy per send; and
\* when all sends completed successfully and the round is over, exactly one
\* event was emitted.
C16_RelayOneMessage ==
    \A k \in DOMAIN inbox :
       inbox[k].heard = 1
       => /\ Cardinality(RunsOf(k)) = 1
          /\ \A r \in RunsOf(k) :
                /\ CopiesIn(r, relays) = 1
                /\ r.pc /= "joined"
                   => /\ \A t \in ActiveSiblings(k) :
                            /\ Cardinality(SendsTo(k, t)) = 1
                            /\ \A x \in SendsTo(k, t) :
                                  /\ CopiesIn(x, sent) = 1
                                  /\ x.body = Quoted(inbox[k].body)
                      /\ SendsTo(k, inbox[k].on) = {}
                /\ Cardinality(EventsOf(k)) <= 1
                /\ \A i \in EventsOf(k) :
                      /\ r.wait = {}
                      /\ Len(emitted[i].message) = Len(r.targets) + 1
                      /\ \A t \in Range(r.targets) :
                            [id |-> k, on |-> t, body |-> Quoted(inbox[k].body)]
                               \in Range(emitted[i].message)
                /\ (r.pc = "emitted") => Cardinality(EventsOf(k)) = 1
                /\ (r.pc = "sending" /\ r.wait /= {}) => EventsOf(k) = {}

\* C16 witness: a message received on one of three active sub-discussions
\* has been relayed to the two others and the event has been emitted.
C16_Witness ==
    /\ Len(subDiscussions) = 3
    /\ \A i \in DOMAIN subDiscussions : subDiscussions[i].removed = Null
    /\ Len(inbox) = 1
    /\ inbox[1].heard = 1
    /\ inbox[1].body = "hi"
    /\ Len(emitted) = 1
    /\ Len(emitted[1].message) = 3
    /\ BagCardinality(sent) = 2

\* C17: when a relayed send fails, the other sends are still made and the
\* round still ends with one "message" event, whose Meta-Message holds the
\* original and the copies that were sent and leaves out the failed one.
C17_FailureIsolation ==
    \A k \in DOMAIN inbox :
       \A r \in RunsOf(k) :
          (inbox[k].heard = 1 /\ r.pc \in {"emitted", "rejected"})
          => /\ \A t \in ActiveSiblings(k) : SendsTo(k, t) /= {}
             /\ Cardinality(EventsOf(k)) = 1
             /\ \A i \in EventsOf(k) :
                   /\ Len(emitted[i].message) =
                         Cardinality(Range(r.targets) \ r.failed) + 1
                   /\ \A t \in Range(r.targets) \ r.failed :
                         [id |-> k, on |-> t, body |-> Quoted(inbox[k].body)]
                            \in Range(emitted[i].message)

(* ------------- properties of User.getOrCreateDiscussion --------------- *)

\* The call has run its loops.
Scanned == goc.pc \notin {"idle", "called"}

\* The positions of the owned accounts that know contact t.
Knowers(t) == {i \in DOMAIN accounts : t \in knows[accounts[i].id]}

\* The positions of the owned accounts that know a target contact.
KnowingAccounts == UNION {Knowers(t) : t \in Range(goc.targets)}

\* C18: when exactly one owned account knows a target contact, the request
\* is not heterogeneous, no Meta-Discussion is constructed and the call
\* resolves with what that account's own getOrCreateDiscussion returns for
\* the target contacts.
C18_SingleAccountDelegates ==
    (Scanned /\ Cardinality(KnowingAccounts) = 1)
    => /\ ~goc.heterogeneous
       /\ goc.metas = 0
       /\ goc.pc \in {"decided", "resolved"}
       /\ goc.pc = "resolved"
          => /\ goc.result = "simple"
             /\ \A i \in KnowingAccounts :
                   goc.delegated = <<[to |-> accounts[i].id,
                                      contacts |-> goc.targets]>>

\* C18 witness: of three owned accounts only the last one knows the two
\* target contacts, and the call has resolved.
C18_Witness ==
    /\ goc.pc = "resolved"
    /\ Len(accounts) = 3
    /\ Len(goc.targets) = 2
    /\ KnowingAccounts = {3}
    /\ Len(goc.delegated) = 1

\* Each target contact is known to one owned account, and no two targets to
\* the same one.
EachTargetItsOwnAccount ==
    /\ Len(goc.targets) >= 2
    /\ \A t \in Range(goc.targets) : Cardinality(Knowers(t)) = 1
    /\ \A t, u \in Range(goc.targets) : t /= u => Knowers(t) \cap Knowers(u) = {}

\* C19: when every target contact is known to an owned account of its own,
\* the call resolves with a Meta-Discussion that has exactly one active
\* sub-discussion per involved account and no other entry, and
\* isHeterogeneous() on it resolves true.
C19_OneSubdiscussionPerAccount ==
    (Scanned /\ EachTargetItsOwnAccount)
    => /\ goc.heterogeneous
       /\ goc.pc /= "rejected"
       /\ goc.pc = "resolved"
          => /\ goc.result = "meta"
             /\ goc.metas = 1
             /\ goc.delegated = <<>>
             /\ Len(subDiscussions) = Len(goc.targets)
             /\ \A i \in KnowingAccounts :
                   Cardinality({k \in DOMAIN subDiscussions :
                                  /\ subDiscussions[k].removed = Null
                                  /\ subDiscussions[k].subdiscussion.account =
                                        accounts[i].id}) = 1
             /\ last.op = "isHeterogeneous" => last.result

\* C19 witness: the call has resolved with a Meta-Discussion of two
\* sub-discussions and isHeterogeneous() has just resolved.
C19_Witness ==
    /\ EachTargetItsOwnAccount
    /\ goc.pc = "resolved"
    /\ goc.result = "meta"
    /\ Len(subDiscussions) = 2
    /\ last.op = "isHeterogeneous"
    /\ last.result

\* C20: when no owned account knows a target contact, the call rejects with
\* the unknown-contact error, constructs no Meta-Discussion and calls no
\* account's getOrCreateDiscussion.
C20_UnknownContactRejects ==
    (Scanned /\ KnowingAccounts = {})
    => /\ goc.pc = "rejected"
       /\ goc.result = "One of the contacts is unknown by the current user."
       /\ goc.metas = 0
       /\ goc.delegated = <<>>
       /\ calls = EmptyBag
       /\ subDiscussions = <<>>

\* C20 witness: the call has rejected for a User of two accounts that know a
\* contact, but none of the targets.
C20_Witness ==
    /\ goc.pc = "rejected"
    /\ Len(accounts) = 2
    /\ Len(goc.targets) = 1
    /\ KnowingAccounts = {}
    /\ \A i \in DOMAIN accounts : knows[accounts[i].id] /= {}

\* C26: the Meta-Discussion the heterogeneous path resolves with holds at
\* most one active sub-discussion per driver and local account, also when
\* two target contacts are known to the same owned account.
C26_FanOutOneEntryPerPair ==
    (goc.pc = "resolved" /\ goc.result = "meta")
    => OneActivePerAccount(subDiscussions)

\* An owned account knows every target contact.
OneKnowsAll ==
    \E i \in DOMAIN accounts : Range(goc.targets) \subseteq knows[accounts[i].id]

\* C27: when some target contact is known to an owned account, the request
\* takes the homogeneous path exactly when one owned account knows all the
\* target contacts, and the heterogeneous path otherwise.
C27_HomogeneousIffOneKnowsAll ==
    (Scanned /\ KnowingAccounts /= {})
    => /\ goc.pc /= "rejected"
       /\ ~goc.heterogeneous <=> OneKnowsAll

(* ------------- properties of the accounts of a User ------------------- *)

\* C21: an addAccount call that found the account's global id among the ids
\* of the owned accounts is rejected ("Already existing account") and leaves
\* this.accounts as it was; a call that did not find it appends the account
\* at the end of this.accounts and succeeds.
C21_AddAccount ==
    last.op = "addAccount" =>
      IF last.arg.id \in Range(last.ids)
      THEN last.result = "Already existing account" /\ accounts = last.before
      ELSE last.result = "ok" /\ accounts = Append(last.before, last.arg)

\* addAccount was rejected on a user that owns the account, after earlier
\* calls had appended two accounts.
C21_Witness ==
    /\ last.op = "addAccount"
    /\ last.result = "Already existing account"
    /\ Len(accounts) >= 2
    /\ last.arg \in Range(accounts)

\* C22: a removeAccount call that did not find the account's global id among
\* the ids of the owned accounts is rejected with "Unknown account" and
\* leaves this.accounts as it was.
C22_RemoveUnknownAccount ==
    (last.op = "removeAccount" /\ last.arg.id \notin Range(last.ids)) =>
      last.result = "Unknown account" /\ accounts = last.before

\* removeAccount was rejected on a user that owns other accounts.
C22_Witness ==
    /\ last.op = "removeAccount"
    /\ last.result = "Unknown account"
    /\ accounts /= <<>>
    /\ last.arg \notin Range(accounts)

\* The accounts of the sequence have pairwise different global ids.
UniqueIds(accts) ==
    \A i, j \in DOMAIN accts : accts[i].id = accts[j].id => i = j

\* C29: a removeAccount call that succeeds removes exactly the owned entry
\* whose global id is the argument's and leaves every other owned account in
\* place and in order, whatever other call completed while it was suspended.
C29_RemoveExactlyThatAccount ==
    (/\ last.op = "removeAccount"
     /\ last.result = "ok"
     /\ UniqueIds(last.before)) =>
      /\ Len(accounts) = Len(last.before) - 1
      /\ accounts = SelectSeq(last.before, LAMBDA a : a.id /= last.arg.id)

(* ------------- properties of User.getAllDiscussions ------------------- *)

\* The simple discussions the accounts of the sequence hold.
HeldBy(accts) == UNION {Range(AccountDiscussions(accts[k])) : k \in DOMAIN accts}

\* C23: getAllDiscussions, called on a user whose accounts hold simple
\* discussions, resolves with a list that contains each of them.
C23_AllDiscussionsListed ==
    (last.op = "getAllDiscussions" /\ HeldBy(last.owned) /= {}) =>
      /\ last.result = "ok"
      /\ HeldBy(last.owned) \subseteq Range(last.value)

(* ------------- properties of MetaDiscussion.getParticipants ----------- *)

\* The participants the sub-discussions of the sequence report.
Reported(snap) ==
    UNION {Range(DiscussionParticipants(snap[k])) : k \in DOMAIN snap}

\* C24: getParticipants resolves with every participant that every
\* sub-discussion reported (when no maxParticipants is given, or when they
\* all fit), and with at most maxParticipants participants when it is given.
C24_AllParticipants ==
    last.op = "getParticipants" =>
      /\ (last.max = 0 \/ Cardinality(Reported(last.snap)) <= last.max)
           => Reported(last.snap) \subseteq Range(last.value)
      /\ last.max /= 0 => Len(last.value) <= last.max

(* ------------- determinism of getMessages ----------------------------- *)

\* The messages the retrievals of the entries 1..e pushed, had they
\* completed in registry order.
RECURSIVE InRegistryOrder(_)
InRegistryOrder(e) ==
    IF e = 0 THEN <<>>
    ELSE InRegistryOrder(e - 1) \o
         SelectSeq(retr[e].got,
                   LAMBDA m : KeepBeforeRemoved(m, subDiscussions[e].removed))

\* C25: the Meta-Messages getMessages returns do not depend on the order in
\* which the retrievals of the sub-discussions complete: in the sorted pool
\* messages with equal creation times follow the registry order of their
\* source entries, and the result is the one obtained when the retrievals
\* complete in registry order.
C25_CompletionOrderIrrelevant ==
    /\ gmPc = "sorted" =>
         \A i, j \in DOMAIN datedMsgs :
            (i < j /\ datedMsgs[i].date = datedMsgs[j].date)
               => datedMsgs[i].src <= datedMsgs[j].src
    /\ Done =>
         metaMessages =
            SweepOuter(SortByDate(InRegistryOrder(Len(retr))), 1, <<>>).metas

(* ------------- delegation of MetaDiscussion.addParticipant ------------ *)

\* The positions of the active entries of the registry whose local account
\* knows the contact.
ActiveCompatible(reg, contact) ==
    {k \in DOMAIN reg : /\ reg[k].removed = Null
                        /\ hasContact(reg[k].subdiscussion.account, contact)}

\* C28: when an active sub-discussion's local account knows the contact,
\* addParticipant delegates the add to the first such active sub-discussion
\* in registry order, never to a removed entry; it creates no discussion and
\* leaves the registry as it was.
C28_DelegateToFirstActive ==
    (/\ last.op = "addParticipant"
     /\ ActiveCompatible(last.before, last.contact) /= {})
    => /\ last.result = "delegated"
       /\ subDiscussions = last.before
       /\ \E k \in ActiveCompatible(last.before, last.contact) :
             /\ \A j \in ActiveCompatible(last.before, last.contact) : k <= j
             /\ last.to = last.before[k].subdiscussion.id

====
